---------------------------- MODULE Spec2Model ----------------------------
(***************************************************************************)
(* A model of the patch indexing and sampling code of src/datasets.py:     *)
(*   - sample() and WeightedSubsetRandomSampler (the curriculum sampler),  *)
(*   - get_slices_bb, centers_to_slice, filter_size, get_balanced_slices   *)
(*     (the patch indexer),                                                *)
(*   - GenericSegmentationCroppingDataset (the dataset adapter), also with *)
(*     two workers calling __getitem__ at the same time,                   *)
(*   - BBImageDataset with mode None (the bounding box dataset),           *)
(*   - the iteration over the sampler while the training loop updates it.  *)
(* Each component has its own specification; the variables of the other    *)
(* components stay at their idle value.                                    *)
(*                                                                         *)
(* Rates are kept as integers in units of 1/RateDen, so a rate of 1.0 is   *)
(* RateDen.  Random draws (torch.randperm, torch.multinomial,              *)
(* np.random.permutation) are nondeterministic choices over every outcome  *)
(* the draw can have.                                                      *)
(***************************************************************************)
EXTENDS Integers, Sequences, FiniteSets, TLC

\* ------------------------------------------------------------------ bounds
\* Largest dataset size given to the sampler.
MaxTotal == 2
\* Largest sample_div given to the sampler.
MaxDiv == 2
\* update() is called at most MaxStep times.
MaxStep == 4
\* Rates are multiples of 1/RateDen.
RateDen == 2
\* Largest number of indices in one update_weights call.
MaxBatch == 1
\* Longest weights tensor, and largest `want`, given to a call of sample() on its own.
MaxSampleLen == 3
MaxWant == 3

\* Longest axis of a one-dimensional mask, alone and in a list of two masks.
MaxAxis == 5
MaxAxisPair == 3
\* Longest axis of a two-dimensional mask.
MaxAxis2D == 3
\* Largest patch length; the overlap of patches stays below it.
MaxPatch == 4
\* Largest min_size given to the indexer.
MaxMinSize == 1
\* Longest axis of a mask given to get_balanced_slices, alone and in a list of two.
MaxAxisBalanced == 4
MaxAxisBalancedPair == 2
\* Most cases of a dataset, and the last voxel a mask of a case may reach.
MaxCases == 3
MaxCaseExtent == 3
\* Most cases of a BBImageDataset, and the longest axis of its arrays.
MaxBBCases == 2
MaxBBAxis == 4

\* np.iinfo(np.int16).max, the weight every sample starts with.
InitWeight == 32767

VARIABLES
    \* WeightedSubsetRandomSampler's fields
    total_samples, step_inc, rate_increase, num_samples,
    step, rate, weights, initial, indices,
    \* what the last update() call did (its locals and how it ended)
    upd,
    \* the index sets produced so far during warm-up, oldest first
    windows,
    \* one run of sample(weights, want): its arguments, locals and position
    s_weights, s_want, s_have, s_samples, s_pc,
    \* the weights sample() was entered with, and the rounds of its loop so far
    s_entry, s_rounds,
    \* the patch indexer: the shape of the masks (masks[0].shape), the list of
    \* masks and of rois, each the set of its voxels > 0 (rois = None is <<>>),
    \* the arguments and the end of the one call made, and the patch slices
    \* it returned, a list of slices per case
    ix_shape, ix_masks, ix_rois, ix_call, ix_status, ix_patch_slices,
    \* GenericSegmentationCroppingDataset: its patch slices per case, its
    \* cumulative patch counts, and the last __getitem__ and __len__ calls
    ds_patch_slices, ds_max_slice, ds_getitem, ds_len,
    \* its cases and labels, one array per case, and the __getitem__ calls of
    \* the worker threads: the position, argument and result of each call,
    \* and the local variables of each call
    ds_cases, ds_labels, ds_calls, ds_frames,
    \* BBImageDataset: the shape of its arrays, its masks (each the set of its
    \* voxels > 0), its flip flag, its bounding boxes and the last __getitem__
    bb_shape, bb_masks, bb_flip, bb_bb, bb_getitem,
    \* one iteration over the sampler: whether __iter__ was called and the
    \* generator is running or exhausted, the list the generator walks, and
    \* the indices it has yielded so far
    it_pc, it_list, it_yielded

samplerVars == <<total_samples, step_inc, rate_increase, num_samples,
                 step, rate, weights, initial, indices, upd, windows>>
sampleVars == <<s_weights, s_want, s_have, s_samples, s_pc, s_entry, s_rounds>>
indexerVars == <<ix_shape, ix_masks, ix_rois, ix_call, ix_status, ix_patch_slices>>
datasetVars == <<ds_patch_slices, ds_max_slice, ds_getitem, ds_len,
                 ds_cases, ds_labels, ds_calls, ds_frames>>
bbVars == <<bb_shape, bb_masks, bb_flip, bb_bb, bb_getitem>>
iterVars == <<it_pc, it_list, it_yielded>>
vars == <<samplerVars, sampleVars, indexerVars, datasetVars, bbVars, iterVars>>

\* ----------------------------------------------------------------- helpers
Min(a, b) == IF a < b THEN a ELSE b
Max(a, b) == IF a > b THEN a ELSE b

\* int(np.ceil(a / b)) for a >= 0, b > 0 (true division, then the ceiling).
CeilDiv(a, b) == (a + b - 1) \div b

SetMax(S) == CHOOSE x \in S : \A y \in S : y <= x
SetMin(S) == CHOOSE x \in S : \A y \in S : x <= y

Range(s) == {s[i] : i \in DOMAIN s}
NoDup(s) == \A i, j \in DOMAIN s : i # j => s[i] # s[j]

\* Every arrangement of the elements of the finite set S (torch.randperm).
Perms(S) ==
    {p \in [1..Cardinality(S) -> S] : \A i, j \in 1..Cardinality(S) : i # j => p[i] # p[j]}

\* Every reordering of the sequence s: s[torch.randperm(len(s))].
Shuffles(s) == {[i \in 1..Len(s) |-> s[p[i]]] : p \in Perms(1..Len(s))}

\* The elements of a finite set of integers in ascending order (torch.unique sorts).
RECURSIVE SortedSeq(_)
SortedSeq(S) == IF S = {} THEN <<>> ELSE <<SetMin(S)>> \o SortedSeq(S \ {SetMin(S)})

\* Python's s[a:b] for 0 <= a, 0 <= b on a sequence (indices from 0, stop clipped).
PySlice(s, a, b) == SubSeq(s, Min(a, Len(s)) + 1, Min(b, Len(s)))

Indices(n) == 0..(n - 1)
\* The weights a sample can hold: the initial sentinel, or a loss stored by the
\* training loop.  torch.multinomial is modelled by the support of the weights,
\* so what matters of a loss is whether it is zero, and whether it is the maximum.
LossValues == {0, 1}
WeightValues == LossValues \cup {InitWeight}

\* ------------------------------------------------------------- sample()
\* The indices torch.multinomial can draw: those of positive weight.
Support(w) == {i \in DOMAIN w : w[i] > 0}

\* torch.multinomial rejects a distribution whose weights sum to zero or less
\* (RuntimeError); the weights here are never negative.
InvalidDist(w) == Support(w) = {}

\* A draw that ignores the weights: any index can come out.
MultinomialAnyIndex(w, n) ==
    {b \in SUBSET DOMAIN w : b # {} /\ Cardinality(b) <= n}

\* a = torch.multinomial(weights, n, replacement=True); b = a.unique():
\* n draws with replacement among the positive weights, so b is any non-empty
\* set of at most n of them.
MultinomialUnique(w, n) ==
    {b \in SUBSET Support(w) : b # {} /\ Cardinality(b) <= n}

\* The weights left as they are.
ZeroAtNone(w, b) == w

\* weights[b] = 0
ZeroAt(w, b) == [i \in DOMAIN w |-> IF i \in b THEN 0 ELSE w[i]]

\* Every way a call sample(w, want) can end, from the loop head with `have`
\* indices collected in `samples`: returned with the samples, or raised by
\* torch.multinomial.  `w` is the weights tensor as the call leaves it.
RECURSIVE SampleRun(_, _, _, _, _)
SampleRun(w, want, have, samples, rounds) ==
    IF ~(have < want)
    THEN {[status |-> "returned", samples |-> samples, w |-> w, rounds |-> rounds]}
    ELSE IF InvalidDist(w)
    THEN {[status |-> "raised", samples |-> samples, w |-> w, rounds |-> rounds]}
    ELSE UNION {SampleRun(ZeroAt(w, b), want, have + Cardinality(b),
                          samples \o SortedSeq(b), rounds + 1)
                : b \in MultinomialUnique(w, want - have)}

sample(w, want) == SampleRun(w, want, 0, <<>>, 0)

\* ------------------------------------------ WeightedSubsetRandomSampler
\* self.num_samples = int(np.ceil(num_samples / sample_div))
NumSamples(total, div) == CeilDiv(total, div)

\* The window one place too far: (step + 1) * num to (step + 2) * num.
WarmupWindowAhead(perm, st, num) == PySlice(perm, (st + 1) * num, (st + 2) * num)

\* self.initial[idx_ini:idx_end] with idx_ini = step * num, idx_end = (step + 1) * num
WarmupWindow(perm, st, num) == PySlice(perm, st * num, (st + 1) * num)

\* The hard count rounded up.
NHardCeil(num, r) == CeilDiv(num * r, RateDen)

\* n_hard = int(self.num_samples * self.rate)
NHard(num, r) == (num * r) \div RateDen

\* easy_w = torch.clamp(max_w - self.weights, 0, max_w)
EasyW(w) ==
    LET max_w == SetMax(Range(w))
    IN  [i \in DOMAIN w |-> Max(0, Min(max_w - w[i], max_w))]

\* hard_w = self.weights.clone(); hard_w[easy_idx] = 0
HardW(w, easy_idx) == ZeroAt(w, Range(easy_idx))

\* The rate increase without its cap.
NextRateNoCap(st, inc, r, r_inc) ==
    IF st > inc /\ (st % inc) = 0 THEN r + r_inc ELSE r

\* if self.step > self.step_inc and (self.step % self.step_inc) == 0:
\*     self.rate = min(self.rate + self.rate_increase, 1)
NextRate(st, inc, r, r_inc) ==
    IF st > inc /\ (st % inc) = 0 THEN Min(r + r_inc, RateDen) ELSE r

\* upd: which branch the last update() took, whether it raised, the rate it was
\* entered with and its locals n_hard and n_easy.
NoCall == [kind |-> "none", raised |-> FALSE, rate |-> 0, n_hard |-> 0, n_easy |-> 0]

SampleIdle ==
    /\ s_weights = <<>> /\ s_want = 0 /\ s_have = 0 /\ s_samples = <<>>
    /\ s_pc = "idle" /\ s_entry = <<>> /\ s_rounds = 0

NoIndexerCall == [fn |-> "none"]

NoGetItem == [called |-> FALSE, index |-> 0, case_idx |-> 0, patch_idx |-> 0,
              slice_i |-> <<>>]
NoLen == [called |-> FALSE, value |-> 0]

\* The worker threads of the data loader that call __getitem__.
Workers == {"w1", "w2"}

NoWorkerCall == [pc |-> "idle", index |-> 0, result |-> <<>>]
NoLocals == [case_idx |-> 0, patch_idx |-> 0, slice_i |-> <<>>]

WorkersIdle ==
    /\ ds_calls = [w \in Workers |-> NoWorkerCall]
    /\ ds_frames = [w \in Workers |-> NoLocals]

DatasetIdle ==
    /\ ds_patch_slices = <<>> /\ ds_max_slice = <<>>
    /\ ds_getitem = NoGetItem /\ ds_len = NoLen
    /\ ds_cases = <<>> /\ ds_labels = <<>>
    /\ WorkersIdle

NoBBGetItem == [status |-> "none", index |-> 0, bb |-> <<>>, inputs |-> <<>>,
                targets |-> <<>>]

BBIdle ==
    /\ bb_shape = <<>> /\ bb_masks = <<>> /\ bb_flip = FALSE /\ bb_bb = <<>>
    /\ bb_getitem = NoBBGetItem

IterIdle == it_pc = "none" /\ it_list = <<>> /\ it_yielded = <<>>

IndexerIdle ==
    /\ ix_shape = <<>> /\ ix_masks = <<>> /\ ix_rois = <<>>
    /\ ix_call = NoIndexerCall /\ ix_status = "idle" /\ ix_patch_slices = <<>>

\* WeightedSubsetRandomSampler.__init__
SamplerInit ==
    /\ total_samples \in 1..MaxTotal
    /\ step_inc \in 1..MaxDiv
    /\ rate \in 0..RateDen
    /\ rate_increase \in 0..RateDen
    /\ step = 0
    /\ num_samples = NumSamples(total_samples, step_inc)
    /\ weights = [i \in Indices(total_samples) |-> InitWeight]
    /\ initial \in Perms(Indices(total_samples))
    /\ indices = PySlice(initial, 0, num_samples)
    /\ upd = NoCall
    /\ windows = <<indices>>

\* The assignment that writes the whole tensor: the entries outside idx become 0.
IndexPutAll(w, idx, new) == [i \in DOMAIN w |-> IF i \in idx THEN new[i] ELSE 0]

\* self.weights[idx] = weights: the entries at idx take the new values.
IndexPut(w, idx, new) == [i \in DOMAIN w |-> IF i \in idx THEN new[i] ELSE w[i]]

\* WeightedSubsetRandomSampler.update_weights(weights, idx), for the indices
\* idx and the values new[i] given for them.
update_weights(new, idx) ==
    /\ weights' = IndexPut(weights, idx, new)
    /\ UNCHANGED <<total_samples, step_inc, rate_increase, num_samples,
                   step, rate, initial, indices, upd, windows>>

\* The batches of indices, and the values, update_weights is called with.
Batches == {idx \in SUBSET Indices(total_samples) :
               idx # {} /\ Cardinality(idx) <= MaxBatch}

\* A call of update_weights by the training loop.
UpdateWeights ==
    \E idx \in Batches : \E new \in [idx -> WeightValues] : update_weights(new, idx)

\* WeightedSubsetRandomSampler.update, the branch self.step < self.step_inc
UpdateWarmup ==
    /\ step < MaxStep
    /\ step + 1 < step_inc
    /\ step' = step + 1
    /\ indices' = WarmupWindow(initial, step', num_samples)
    /\ rate' = NextRate(step', step_inc, rate, rate_increase)
    /\ upd' = [NoCall EXCEPT !.kind = "warmup", !.rate = rate]
    /\ windows' = Append(windows, indices')
    /\ UNCHANGED <<total_samples, step_inc, rate_increase, num_samples,
                   weights, initial>>

\* The index tensors a call sample(w, want) can return, and whether it can raise.
Returned(w, want) == {o.samples : o \in {r \in sample(w, want) : r.status = "returned"}}
CanRaise(w, want) == \E o \in sample(w, want) : o.status = "raised"

\* The stored tensor when sample() was given the stored tensor itself.
StoredAliased(stored, passed) == passed

\* self.weights after a call of sample(): the tensor passed to sample() is a
\* new one (the result of torch.clamp, or self.weights.clone()), so zeroing
\* it, which leaves it as `passed`, does not reach the stored tensor.
StoredAfterSample(stored, passed) == stored

\* The tensor sample() leaves behind when it raises: every weight zeroed.
Exhausted(w) == [i \in DOMAIN w |-> 0]

\* WeightedSubsetRandomSampler.update, the else branch.  An exception of
\* torch.multinomial inside sample() leaves update() at once: the step has
\* been advanced, and indices and rate keep their values.
UpdateCurriculum ==
    /\ step < MaxStep
    /\ ~(step + 1 < step_inc)
    /\ step' = step + 1
    /\ LET n_hard == NHard(num_samples, rate)
           n_easy == num_samples - n_hard
           easy_w == EasyW(weights)
           call == [kind |-> "curriculum", raised |-> FALSE, rate |-> rate,
                    n_hard |-> n_hard, n_easy |-> n_easy]
           failed == /\ upd' = [call EXCEPT !.raised = TRUE]
                     /\ UNCHANGED <<indices, rate>>
       IN \/ /\ CanRaise(easy_w, n_easy)
             /\ failed
             /\ weights' = StoredAfterSample(weights, Exhausted(easy_w))
          \/ \E easy_idx \in Returned(easy_w, n_easy) :
               LET stored == StoredAfterSample(weights, ZeroAt(easy_w, Range(easy_idx)))
                   hard_w == HardW(stored, easy_idx)
               IN \/ /\ CanRaise(hard_w, n_hard)
                     /\ failed
                     /\ weights' = StoredAfterSample(stored, Exhausted(hard_w))
                  \/ \E hard_idx \in Returned(hard_w, n_hard) :
                       /\ indices' \in Shuffles(hard_idx \o easy_idx)
                       /\ rate' = NextRate(step', step_inc, rate, rate_increase)
                       /\ upd' = call
                       /\ weights' = StoredAfterSample(stored,
                                                       ZeroAt(hard_w, Range(hard_idx)))
    /\ UNCHANGED <<total_samples, step_inc, rate_increase, num_samples,
                   initial, windows>>

SamplerNext ==
    \/ UpdateWeights /\ UNCHANGED <<sampleVars, indexerVars, datasetVars,
                           bbVars, iterVars>>
    \/ UpdateWarmup /\ UNCHANGED <<sampleVars, indexerVars, datasetVars,
                           bbVars, iterVars>>
    \/ UpdateCurriculum /\ UNCHANGED <<sampleVars, indexerVars, datasetVars,
                           bbVars, iterVars>>

SamplerStart == SamplerInit /\ SampleIdle /\ IndexerIdle /\ DatasetIdle
    /\ BBIdle /\ IterIdle

SamplerSpec == SamplerStart /\ [][SamplerNext]_vars

\* -------------------------- iterating over WeightedSubsetRandomSampler
\* The number of update() calls in a behaviour of the training loop.
MaxIterStep == 1

\* WeightedSubsetRandomSampler.__len__
SamplerLen == num_samples

\* A generator that reads self.indices again at every step.
IterSourceLive(list, current) == current

\* What the generator (i for i in self.indices.tolist()) walks: the list
\* that tolist() built when __iter__ was called, whatever self.indices is by
\* the time of the step.
IterSource(list, current) == list

\* WeightedSubsetRandomSampler.__iter__: self.indices.tolist() is evaluated
\* at once and the generator over it is returned.  A new iteration starts
\* when none is running.
Iter ==
    /\ it_pc \in {"none", "exhausted"}
    /\ it_pc' = "running"
    /\ it_list' = indices
    /\ it_yielded' = <<>>

\* next() on the generator: the next element of the list, or StopIteration.
IterYield ==
    /\ it_pc = "running"
    /\ LET source == IterSource(it_list, indices)
       IN IF Len(it_yielded) < Len(source)
          THEN /\ it_yielded' = Append(it_yielded, source[Len(it_yielded) + 1])
               /\ UNCHANGED it_pc
          ELSE /\ it_pc' = "exhausted"
               /\ UNCHANGED it_yielded
    /\ UNCHANGED it_list

\* The training loop: it iterates over the sampler, stores weights and calls
\* update(), in any order.
IterNext ==
    \/ UpdateWeights /\ UNCHANGED <<sampleVars, indexerVars, datasetVars,
                                   bbVars, iterVars>>
    \/ step < MaxIterStep /\ UpdateWarmup
          /\ UNCHANGED <<sampleVars, indexerVars, datasetVars, bbVars, iterVars>>
    \/ step < MaxIterStep /\ UpdateCurriculum
          /\ UNCHANGED <<sampleVars, indexerVars, datasetVars, bbVars, iterVars>>
    \/ Iter /\ UNCHANGED <<samplerVars, sampleVars, indexerVars, datasetVars, bbVars>>
    \/ IterYield /\ UNCHANGED <<samplerVars, sampleVars, indexerVars, datasetVars,
                               bbVars>>

\* The training loop between two iterations: it stores losses and calls
\* update().
StoreNext ==
    \/ UpdateWeights /\ UNCHANGED <<sampleVars, indexerVars, datasetVars,
                                   bbVars, iterVars>>
    \/ step < MaxIterStep /\ UpdateWarmup
          /\ UNCHANGED <<sampleVars, indexerVars, datasetVars, bbVars, iterVars>>
    \/ step < MaxIterStep /\ UpdateCurriculum
          /\ UNCHANGED <<sampleVars, indexerVars, datasetVars, bbVars, iterVars>>

\* The sampler as constructed, with a constant rate (rate_increase = 0).
StoreStart ==
    /\ SamplerInit /\ rate_increase = 0
    /\ SampleIdle /\ IndexerIdle /\ DatasetIdle /\ BBIdle /\ IterIdle

StoreSpec == StoreStart /\ [][StoreNext]_vars

\* The sampler as constructed, with a constant rate (rate_increase = 0): the
\* rate schedule plays no part in what an iteration yields.
IterStart ==
    /\ SamplerInit /\ rate_increase = 0
    /\ SampleIdle /\ IndexerIdle /\ DatasetIdle /\ BBIdle /\ IterIdle

IterSpec == IterStart /\ [][IterNext]_vars

\* ---------------------------------------------- sample(), step by step
SamplerIdle ==
    /\ total_samples = 0 /\ step_inc = 0 /\ rate_increase = 0 /\ num_samples = 0
    /\ step = 0 /\ rate = 0 /\ weights = <<>> /\ initial = <<>> /\ indices = <<>>
    /\ upd = NoCall /\ windows = <<>>

\* A call sample(weights, want): have = 0; samples = torch.empty(want)
SampleInit ==
    /\ \E n \in 1..MaxSampleLen : s_weights \in [Indices(n) -> WeightValues]
    /\ s_want \in 0..MaxWant
    /\ s_have = 0
    /\ s_samples = <<>>
    /\ s_pc = "loop"
    /\ s_entry = s_weights
    /\ s_rounds = 0

\* One round of the loop: the test have < want holds and torch.multinomial draws.
SampleRound ==
    /\ s_pc = "loop"
    /\ s_have < s_want
    /\ ~InvalidDist(s_weights)
    /\ \E b \in MultinomialUnique(s_weights, s_want - s_have) :
         /\ s_samples' = s_samples \o SortedSeq(b)
         /\ s_weights' = ZeroAt(s_weights, b)
         /\ s_have' = s_have + Cardinality(b)
    /\ s_rounds' = s_rounds + 1
    /\ UNCHANGED <<s_want, s_pc, s_entry>>

\* The test have < want holds and torch.multinomial raises.
SampleRaise ==
    /\ s_pc = "loop"
    /\ s_have < s_want
    /\ InvalidDist(s_weights)
    /\ s_pc' = "raised"
    /\ UNCHANGED <<s_weights, s_want, s_have, s_samples, s_entry, s_rounds>>

\* The test have < want fails: return samples.
SampleReturn ==
    /\ s_pc = "loop"
    /\ ~(s_have < s_want)
    /\ s_pc' = "returned"
    /\ UNCHANGED <<s_weights, s_want, s_have, s_samples, s_entry, s_rounds>>

SampleNext ==
    \/ SampleRound /\ UNCHANGED <<samplerVars, indexerVars, datasetVars,
                           bbVars, iterVars>>
    \/ SampleRaise /\ UNCHANGED <<samplerVars, indexerVars, datasetVars,
                           bbVars, iterVars>>
    \/ SampleReturn /\ UNCHANGED <<samplerVars, indexerVars, datasetVars,
                           bbVars, iterVars>>

\* A running call keeps executing: the loop is never abandoned half way.
SampleStart == SamplerIdle /\ SampleInit /\ IndexerIdle /\ DatasetIdle
    /\ BBIdle /\ IterIdle

SampleSpec == SampleStart /\ [][SampleNext]_vars /\ WF_vars(SampleNext)

\* ------------------------------------------------------- the patch indexer
\* A voxel is the tuple of its coordinates; a mask is held as the set of its
\* voxels > 0, together with the shape of the array.  A slice is the pair
\* <<start, stop>>, and a patch slice is one slice per axis.

\* Every voxel of an array of the given shape.
Coords(shape) ==
    {v \in [DOMAIN shape -> 0..(SetMax(Range(shape) \cup {1}) - 1)] :
        \A j \in DOMAIN shape : v[j] < shape[j]}

\* patch_half = map(lambda p_length: p_length // 2, patch_size)
PatchHalf(patch_size) == [j \in DOMAIN patch_size |-> patch_size[j] \div 2]

\* steps = map(lambda p_length: max(p_length - overlap, 1), patch_size)
Steps(patch_size, overlap) ==
    [j \in DOMAIN patch_size |-> Max(patch_size[j] - overlap, 1)]

\* np.min(np.where(mask > 0), axis=-1) and np.max(...), of a mask that has voxels.
MinBB(mask, D) == [j \in 1..D |-> SetMin({v[j] : v \in mask})]
MaxBB(mask, D) == [j \in 1..D |-> SetMax({v[j] : v \in mask})]

\* np.arange(a, b, st): a, a + st, ... below b.
Arange(a, b, st) ==
    [i \in 1..(IF b > a THEN CeilDiv(b - a, st) ELSE 0) |-> a + (i - 1) * st]

\* The centres on one axis, list input: np.concatenate([np.arange(*t), [t[1]]])
\* with t = (min + half, max - half, step).
DimRangeList(lo, hi, st) == Arange(lo, hi, st) \o <<hi>>

\* The centres on one axis, single-mask input: np.arange(*t).
DimRangeSingle(lo, hi, st) == Arange(lo, hi, st)

\* The concatenation of a sequence of sequences.
RECURSIVE Concat(_)
Concat(ss) == IF ss = <<>> THEN <<>> ELSE Head(ss) \o Concat(Tail(ss))

\* itertools.product(*ranges): the tuples in lexicographic order.
RECURSIVE Product(_)
Product(ranges) ==
    IF ranges = <<>> THEN << <<>> >>
    ELSE LET rest == Product(Tail(ranges))
             first == Head(ranges)
         IN Concat([i \in 1..Len(first) |->
                      [k \in 1..Len(rest) |-> <<first[i]>> \o rest[k]]])

\* centers_to_slice: slice(idx - p_len, idx + p_len) on every axis.
centers_to_slice(voxels, patch_half) ==
    [i \in 1..Len(voxels) |->
        [j \in DOMAIN patch_half |->
            <<voxels[i][j] - patch_half[j], voxels[i][j] + patch_half[j]>>]]

\* The positions numpy takes for slice(start, stop) on an axis of length n:
\* a negative bound counts from the end, and both are clipped to the axis.
NumpyBound(b, n) == IF b < 0 THEN Max(b + n, 0) ELSE Min(b, n)
NumpyRange(sl, n) == NumpyBound(sl[1], n)..(NumpyBound(sl[2], n) - 1)

\* np.sum(mask[s_i] > 0)
ForegroundIn(mask, shape, s_i) ==
    Cardinality({v \in mask : \A j \in DOMAIN shape : v[j] \in NumpyRange(s_i[j], shape[j])})

\* filter_size kept as in the code, and with >= for the test.
FilterSizeAtLeast(slices, mask, shape, min_size) ==
    SelectSeq(slices, LAMBDA s_i : ForegroundIn(mask, shape, s_i) >= min_size)

\* filter_size: keep the slices with np.sum(mask[s_i] > 0) > min_size.
filter_size(slices, mask, shape, min_size) ==
    SelectSeq(slices, LAMBDA s_i : ForegroundIn(mask, shape, s_i) > min_size)

\* The centres of one mask on the grid of get_slices_bb, axis by axis.
DimRanges(mask, patch_size, overlap, single) ==
    LET D == Len(patch_size)
        half == PatchHalf(patch_size)
        st == Steps(patch_size, overlap)
        min_bb == [j \in 1..D |-> MinBB(mask, D)[j] + half[j]]
        max_bb == [j \in 1..D |-> MaxBB(mask, D)[j] - half[j]]
    IN [j \in 1..D |->
          IF single THEN DimRangeSingle(min_bb[j], max_bb[j], st[j])
          ELSE DimRangeList(min_bb[j], max_bb[j], st[j])]

\* The patch slices get_slices_bb builds for one mask, before filtering.
GridSlices(mask, patch_size, overlap, single) ==
    centers_to_slice(Product(DimRanges(mask, patch_size, overlap, single)),
                     PatchHalf(patch_size))

\* The patch slices get_slices_bb returns for one mask.
SlicesBB(mask, shape, patch_size, overlap, filtered, min_size, single) ==
    LET grid == GridSlices(mask, patch_size, overlap, single)
    IN IF filtered THEN filter_size(grid, mask, shape, min_size) ELSE grid

\* The one-dimensional masks of length n, alone or two in a list.
Worlds1D ==
    UNION {{[shape |-> <<n>>, masks |-> <<a>>] : a \in SUBSET Coords(<<n>>)}
           : n \in 1..MaxAxis}
    \cup UNION {{[shape |-> <<n>>, masks |-> <<a, b>>] :
                   a \in SUBSET Coords(<<n>>), b \in SUBSET Coords(<<n>>)}
                : n \in 1..MaxAxisPair}

\* The two-dimensional masks with at most two voxels > 0.
Worlds2D ==
    UNION {{[shape |-> <<n, m>>, masks |-> <<{u, v}>>] :
              u \in Coords(<<n, m>>), v \in Coords(<<n, m>>)}
           \cup {[shape |-> <<n, m>>, masks |-> <<{}>>]}
           : n \in 1..MaxAxis2D, m \in 1..MaxAxis2D}

\* The mask of shape (10, 10, 10) whose only voxel > 0 is (5, 5, 5).
ExampleWorld == [shape |-> <<10, 10, 10>>, masks |-> << {<<5, 5, 5>>} >>]

\* The masks exist; get_slices_bb has not been called.
SlicesBBInit ==
    /\ \E w \in Worlds1D \cup Worlds2D \cup {ExampleWorld} :
         /\ ix_shape = w.shape
         /\ ix_masks = w.masks
    /\ ix_rois = <<>>
    /\ ix_call = NoIndexerCall
    /\ ix_status = "ready"
    /\ ix_patch_slices = <<>>

PatchSizes(D) == [1..D -> 1..MaxPatch]

\* get_slices_bb(masks, patch_size, overlap, filtered, min_size) with a list
\* of masks.  np.min over the voxels of an empty mask raises.
GetSlicesBBList ==
    /\ ix_status = "ready"
    /\ \E patch_size \in PatchSizes(Len(ix_shape)), overlap \in 0..(MaxPatch - 1),
          filtered \in BOOLEAN, min_size \in 0..MaxMinSize :
         /\ filtered \/ min_size = 0
         /\ ix_call' = [fn |-> "get_slices_bb", single |-> FALSE,
                        patch_size |-> patch_size, overlap |-> overlap,
                        filtered |-> filtered, min_size |-> min_size]
         /\ IF \E i \in DOMAIN ix_masks : ix_masks[i] = {}
            THEN /\ ix_status' = "raised"
                 /\ ix_patch_slices' = <<>>
            ELSE /\ ix_status' = "returned"
                 /\ ix_patch_slices' =
                      [i \in DOMAIN ix_masks |->
                         SlicesBB(ix_masks[i], ix_shape, patch_size, overlap,
                                  filtered, min_size, FALSE)]
    /\ UNCHANGED <<ix_shape, ix_masks, ix_rois>>

\* get_slices_bb(masks, ...) with one mask array, here the first of the list:
\* the else branch, which returns one list of slices.
GetSlicesBBSingle ==
    /\ ix_status = "ready"
    /\ \E patch_size \in PatchSizes(Len(ix_shape)), overlap \in 0..(MaxPatch - 1),
          filtered \in BOOLEAN, min_size \in 0..MaxMinSize :
         /\ filtered \/ min_size = 0
         /\ ix_call' = [fn |-> "get_slices_bb", single |-> TRUE,
                        patch_size |-> patch_size, overlap |-> overlap,
                        filtered |-> filtered, min_size |-> min_size]
         /\ IF ix_masks[1] = {}
            THEN /\ ix_status' = "raised"
                 /\ ix_patch_slices' = <<>>
            ELSE /\ ix_status' = "returned"
                 /\ ix_patch_slices' =
                      << SlicesBB(ix_masks[1], ix_shape, patch_size, overlap,
                                  filtered, min_size, TRUE) >>
    /\ UNCHANGED <<ix_shape, ix_masks, ix_rois>>

SlicesBBNext ==
    \/ GetSlicesBBList /\ UNCHANGED <<samplerVars, sampleVars, datasetVars,
                           bbVars, iterVars>>
    \/ GetSlicesBBSingle /\ UNCHANGED <<samplerVars, sampleVars, datasetVars,
                           bbVars, iterVars>>

SlicesBBStart == SamplerIdle /\ SampleIdle /\ SlicesBBInit /\ DatasetIdle
    /\ BBIdle /\ IterIdle

SlicesBBSpec == SlicesBBStart /\ [][SlicesBBNext]_vars

\* ---------------------------------------------------- get_balanced_slices
\* u comes before v in the order of np.nonzero (row-major).
LexLess(u, v) ==
    \E j \in DOMAIN u : u[j] < v[j] /\ \A k \in 1..(j - 1) : u[k] = v[k]

\* get_mask_voxels (imported from data_manipulation.generate_features): the
\* coordinate tuples of the voxels that are true, here in row-major order.
RECURSIVE MaskVoxels(_)
MaskVoxels(mask) ==
    IF mask = {} THEN <<>>
    ELSE LET first == CHOOSE u \in mask : \A v \in mask : u = v \/ LexLess(u, v)
         IN <<first>> \o MaskVoxels(mask \ {first})

\* The legal mask of one case: on every axis j,
\* m_j >= max(min_ij, p_ij) and m_j <= min(max_ij, max_j - p_ij).
LegalMask(min_i, max_i, shape, patch_half) ==
    {v \in Coords(shape) :
        \A j \in DOMAIN shape :
            /\ v[j] >= Max(min_i[j], patch_half[j])
            /\ v[j] <= Min(max_i[j], shape[j] - patch_half[j])}

\* np.random.permutation(n)[:k]: k distinct positions out of n, or all n of
\* them when k > n, in any order.
PermutationHead(n, k) ==
    {p \in [1..Min(k, n) -> 1..n] : \A a, b \in 1..Min(k, n) : a # b => p[a] # p[b]}

\* The count of background patches, never below one.
NegCountAtLeastOne(neg_ratio, n) == Max(1, (neg_ratio[1] * n) \div neg_ratio[2])

\* int(neg_ratio * n), for the ratio neg_ratio[1] / neg_ratio[2].
NegCount(neg_ratio, n) == (neg_ratio[1] * n) \div neg_ratio[2]

\* Every voxel > 0 of the mask, the legal mask left out.
FgCentresUnfiltered(mask, roi, shape, patch_half) == mask

\* fmasks: the voxels > 0 of the mask that lie in the legal mask, whose
\* bounding box is that of the roi, or of the mask when rois is None.  The roi
\* of a case is <<>> for None and <<r>> for the roi r.
FgCentres(mask, roi, shape, patch_half) ==
    LET box == IF roi = <<>> THEN mask ELSE roi[1]
        D == Len(shape)
    IN mask \cap LegalMask(MinBB(box, D), MaxBB(box, D), shape, patch_half)

\* fbck_masks: the voxels of the background (inside the roi, when given) that
\* lie in the legal mask.
BckCentres(mask, roi, shape, patch_half) ==
    LET box == IF roi = <<>> THEN mask ELSE roi[1]
        D == Len(shape)
        bck == IF roi = <<>> THEN Coords(shape) \ mask
               ELSE (Coords(shape) \ mask) \cap roi[1]
    IN bck \cap LegalMask(MinBB(box, D), MaxBB(box, D), shape, patch_half)

\* Every list of patch slices get_balanced_slices can return for one case.
BalancedSlices(mask, roi, shape, patch_size, min_size, neg_ratio) ==
    LET patch_half == PatchHalf(patch_size)
        lesion_voxels == MaskVoxels(FgCentres(mask, roi, shape, patch_half))
        bck_voxels == MaskVoxels(BckCentres(mask, roi, shape, patch_half))
        lesion_slices == centers_to_slice(lesion_voxels, patch_half)
        want == NegCount(neg_ratio, Len(lesion_voxels))
    IN IF min_size > 0
       THEN LET fbck_slices == filter_size(centers_to_slice(bck_voxels, patch_half),
                                           mask, shape, min_size)
            IN {lesion_slices \o [a \in DOMAIN p |-> fbck_slices[p[a]]]
                  : p \in PermutationHead(Len(fbck_slices), want)}
       ELSE {lesion_slices \o
               centers_to_slice([a \in DOMAIN p |-> bck_voxels[p[a]]], patch_half)
                  : p \in PermutationHead(Len(bck_voxels), want)}

\* The masks and rois given to get_balanced_slices: one-dimensional, one case
\* with any roi or none, or two cases with no rois or with the masks
\* themselves as rois.
WorldsBalanced ==
    UNION {{[shape |-> <<n>>, masks |-> <<a>>, rois |-> r] :
              a \in SUBSET Coords(<<n>>),
              r \in {<<>>} \cup {<<b>> : b \in SUBSET Coords(<<n>>)}}
           : n \in 1..MaxAxisBalanced}
    \cup UNION {UNION {{[shape |-> <<n>>, masks |-> <<a, b>>, rois |-> r] :
                          r \in {<<>>, <<a, b>>}}
                       : a \in SUBSET Coords(<<n>>), b \in SUBSET Coords(<<n>>)}
                : n \in 1..MaxAxisBalancedPair}

\* The masks and rois exist; get_balanced_slices has not been called.
BalancedInit ==
    /\ \E w \in WorldsBalanced :
         /\ ix_shape = w.shape
         /\ ix_masks = w.masks
         /\ ix_rois = w.rois
    /\ ix_call = NoIndexerCall
    /\ ix_status = "ready"
    /\ ix_patch_slices = <<>>

\* neg_ratio, as numerator and denominator.
NegRatios == {<<1, 2>>, <<1, 1>>, <<3, 2>>}

\* get_balanced_slices(masks, patch_size, rois, min_size, neg_ratio).  np.min
\* over the voxels of an empty mask (an empty roi, when rois are given) raises.
GetBalancedSlices ==
    /\ ix_status = "ready"
    /\ \E patch_size \in PatchSizes(Len(ix_shape)), min_size \in 0..MaxMinSize,
          neg_ratio \in NegRatios :
         /\ ix_call' = [fn |-> "get_balanced_slices", patch_size |-> patch_size,
                        min_size |-> min_size, neg_ratio |-> neg_ratio]
         /\ LET boxes == IF ix_rois = <<>> THEN ix_masks ELSE ix_rois
                roi(i) == IF ix_rois = <<>> THEN <<>> ELSE <<ix_rois[i]>>
            IN IF \E i \in DOMAIN boxes : boxes[i] = {}
               THEN /\ ix_status' = "raised"
                    /\ ix_patch_slices' = <<>>
               ELSE /\ ix_status' = "returned"
                    /\ ix_patch_slices' \in
                         {ps \in [DOMAIN ix_masks ->
                                    UNION {BalancedSlices(ix_masks[i], roi(i), ix_shape,
                                                          patch_size, min_size, neg_ratio)
                                           : i \in DOMAIN ix_masks}] :
                             \A i \in DOMAIN ix_masks :
                                ps[i] \in BalancedSlices(ix_masks[i], roi(i), ix_shape,
                                                         patch_size, min_size, neg_ratio)}
    /\ UNCHANGED <<ix_shape, ix_masks, ix_rois>>

BalancedNext ==
    \/ GetBalancedSlices /\ UNCHANGED <<samplerVars, sampleVars, datasetVars,
                           bbVars, iterVars>>

BalancedStart == SamplerIdle /\ SampleIdle /\ BalancedInit /\ DatasetIdle
    /\ BBIdle /\ IterIdle

BalancedSpec == BalancedStart /\ [][BalancedNext]_vars

\* Both entry points of the patch indexer on the same masks and rois:
\* get_slices_bb takes the masks and ignores the rois.
IndexerNext ==
    \/ GetSlicesBBList /\ UNCHANGED <<samplerVars, sampleVars, datasetVars,
                           bbVars, iterVars>>
    \/ GetSlicesBBSingle /\ UNCHANGED <<samplerVars, sampleVars, datasetVars,
                           bbVars, iterVars>>
    \/ GetBalancedSlices /\ UNCHANGED <<samplerVars, sampleVars, datasetVars,
                           bbVars, iterVars>>

IndexerStart == SamplerIdle /\ SampleIdle /\ BalancedInit /\ DatasetIdle
    /\ BBIdle /\ IterIdle

IndexerSpec == IndexerStart /\ [][IndexerNext]_vars

\* ------------------------------------- GenericSegmentationCroppingDataset
\* np.cumsum(map(len, self.patch_slices))
RECURSIVE SumTo(_, _)
SumTo(counts, n) == IF n = 0 THEN 0 ELSE SumTo(counts, n - 1) + counts[n]
CumSum(counts) == [i \in DOMAIN counts |-> SumTo(counts, i)]

\* The masks of the cases of a dataset, on an axis of MaxCaseExtent + 1
\* voxels: the voxels 0..c all > 0, or the voxels 0 and 2 alone.
DatasetMasks ==
    {{<<x>> : x \in 0..c} : c \in 1..MaxCaseExtent} \cup {{<<0>>, <<2>>}}

\* The image of case i, one channel: the intensity 10 * i + x at voxel x.
CaseImage(i) == [x \in 0..MaxCaseExtent |-> 10 * i + x]

\* The label array of a case whose labels are its mask: 1 at the voxels > 0.
LabelArray(mask) == [x \in 0..MaxCaseExtent |-> IF <<x>> \in mask THEN 1 ELSE 0]

\* GenericSegmentationCroppingDataset.__init__ with balanced=False, masks
\* given, patch_size=2, overlap=1 and min_size=1: get_slices_bb(masks,
\* patch_size, overlap=overlap, min_size=min_size, filtered=True) and the
\* cumulative sum of the patch counts.
DatasetInit ==
    /\ \E n \in 1..MaxCases :
         \E masks \in [1..n -> DatasetMasks] :
            /\ ds_patch_slices =
                  [i \in 1..n |-> SlicesBB(masks[i], <<MaxCaseExtent + 1>>, <<2>>,
                                           1, TRUE, 1, FALSE)]
            /\ ds_cases = [i \in 1..n |-> CaseImage(i)]
            /\ ds_labels = [i \in 1..n |-> LabelArray(masks[i])]
    /\ WorkersIdle
    /\ ds_max_slice = CumSum([i \in DOMAIN ds_patch_slices |-> Len(ds_patch_slices[i])])
    /\ ds_getitem = NoGetItem
    /\ ds_len = NoLen

\* The case the test `>=` would select.
CaseIdxAtLeast(max_slice, index) ==
    SetMin({i \in DOMAIN max_slice : max_slice[i] >= index}) - 1

\* case_idx = np.min(np.where(self.max_slice > index)), counted from 0.
CaseIdx(max_slice, index) ==
    SetMin({i \in DOMAIN max_slice : max_slice[i] > index}) - 1

\* slices = [0] + self.max_slice.tolist(); patch_idx = index - slices[case_idx]
PatchIdx(max_slice, index, case_idx) == index - (<<0>> \o max_slice)[case_idx + 1]

\* GenericSegmentationCroppingDataset.__getitem__(index) for an index in
\* [0, __len__()): the case, the patch of the case and its slices.
GetItem ==
    /\ \E index \in 0..(ds_max_slice[Len(ds_max_slice)] - 1) :
         LET case_idx == CaseIdx(ds_max_slice, index)
             patch_idx == PatchIdx(ds_max_slice, index, case_idx)
         IN ds_getitem' = [called |-> TRUE, index |-> index, case_idx |-> case_idx,
                           patch_idx |-> patch_idx,
                           slice_i |-> ds_patch_slices[case_idx + 1][patch_idx + 1]]
    /\ UNCHANGED <<ds_patch_slices, ds_max_slice, ds_len,
                   ds_cases, ds_labels, ds_calls, ds_frames>>

\* GenericSegmentationCroppingDataset.__len__: self.max_slice[-1]
DatasetLen ==
    /\ ds_len' = [called |-> TRUE, value |-> ds_max_slice[Len(ds_max_slice)]]
    /\ UNCHANGED <<ds_patch_slices, ds_max_slice, ds_getitem,
                   ds_cases, ds_labels, ds_calls, ds_frames>>

DatasetNext ==
    \/ GetItem /\ UNCHANGED <<samplerVars, sampleVars, indexerVars,
                           bbVars, iterVars>>
    \/ DatasetLen /\ UNCHANGED <<samplerVars, sampleVars, indexerVars,
                           bbVars, iterVars>>

DatasetStart == SamplerIdle /\ SampleIdle /\ IndexerIdle /\ DatasetInit
    /\ BBIdle /\ IterIdle

DatasetSpec == DatasetStart /\ [][DatasetNext]_vars

\* ------------------------------ __getitem__ called by concurrent workers
\* Each call runs in the frame of its own worker: its local variables are
\* not shared.
SharedFrame(w) == "w1"
Frame(w) == w

\* A Python list read at position i: positions below 0 count from the end,
\* and a position outside the list raises IndexError.
PyIndexable(list, i) == -Len(list) <= i /\ i < Len(list)
PyItem(list, i) == list[IF i < 0 THEN Len(list) + i + 1 ELSE i + 1]

\* array[slice_i] for a one-dimensional array: the values at the positions
\* numpy takes for the slice.
ArraySlice(array, slice_i) ==
    LET n == Cardinality(DOMAIN array)
        lo == NumpyBound(slice_i[1][1], n)
    IN [k \in 1..Cardinality(NumpyRange(slice_i[1], n)) |-> array[lo + k - 1]]

\* .astype(np.uint8)
AsUint8(array) == [k \in DOMAIN array |-> array[k] % 256]

\* The values __getitem__ returns, labels given and no sampler:
\* inputs = case[none_slice + slice_i].astype(np.float32), which keeps these
\* intensities, and target = np.expand_dims(labels[slice_i], 0).
GetItemResult(case_idx, slice_i) ==
    [inputs |-> ArraySlice(ds_cases[case_idx + 1], slice_i),
     target |-> ArraySlice(AsUint8(ds_labels[case_idx + 1]), slice_i)]

\* A worker calls __getitem__(index) with an index in [0, __len__()).
GetItemCall(w) ==
    /\ ds_calls[w].pc = "idle"
    /\ \E index \in 0..(ds_max_slice[Len(ds_max_slice)] - 1) :
         ds_calls' = [ds_calls EXCEPT ![w] = [pc |-> "case", index |-> index,
                                             result |-> <<>>]]
    /\ UNCHANGED <<ds_patch_slices, ds_max_slice, ds_getitem, ds_len,
                   ds_cases, ds_labels, ds_frames>>

\* case_idx = np.min(np.where(self.max_slice > index)); case = self.cases[case_idx]
GetItemCase(w) ==
    /\ ds_calls[w].pc = "case"
    /\ ds_frames' = [ds_frames EXCEPT ![Frame(w)].case_idx =
                        CaseIdx(ds_max_slice, ds_calls[w].index)]
    /\ ds_calls' = [ds_calls EXCEPT ![w].pc = "patch"]
    /\ UNCHANGED <<ds_patch_slices, ds_max_slice, ds_getitem, ds_len,
                   ds_cases, ds_labels>>

\* slices = [0] + self.max_slice.tolist(); patch_idx = index - slices[case_idx];
\* case_slices = self.patch_slices[case_idx]; slice_i = case_slices[patch_idx]
GetItemPatch(w) ==
    /\ ds_calls[w].pc = "patch"
    /\ LET case_idx == ds_frames[Frame(w)].case_idx
           patch_idx == PatchIdx(ds_max_slice, ds_calls[w].index, case_idx)
           case_slices == ds_patch_slices[case_idx + 1]
       IN IF PyIndexable(case_slices, patch_idx)
          THEN /\ ds_frames' = [ds_frames EXCEPT
                                  ![Frame(w)].patch_idx = patch_idx,
                                  ![Frame(w)].slice_i = PyItem(case_slices, patch_idx)]
               /\ ds_calls' = [ds_calls EXCEPT ![w].pc = "read"]
          ELSE /\ ds_calls' = [ds_calls EXCEPT ![w].pc = "raised"]
               /\ UNCHANGED ds_frames
    /\ UNCHANGED <<ds_patch_slices, ds_max_slice, ds_getitem, ds_len,
                   ds_cases, ds_labels>>

\* inputs = case[none_slice + slice_i].astype(np.float32);
\* labels = self.labels[case_idx].astype(np.uint8);
\* target = np.expand_dims(labels[slice_i], 0); return inputs, target
GetItemRead(w) ==
    /\ ds_calls[w].pc = "read"
    /\ ds_calls' = [ds_calls EXCEPT
                      ![w].pc = "done",
                      ![w].result = GetItemResult(ds_frames[Frame(w)].case_idx,
                                                  ds_frames[Frame(w)].slice_i)]
    /\ UNCHANGED <<ds_patch_slices, ds_max_slice, ds_getitem, ds_len,
                   ds_cases, ds_labels, ds_frames>>

ConcurrentNext ==
    \/ \E w \in Workers : GetItemCall(w) /\ UNCHANGED <<samplerVars, sampleVars, indexerVars,
                           bbVars, iterVars>>
    \/ \E w \in Workers : GetItemCase(w) /\ UNCHANGED <<samplerVars, sampleVars, indexerVars,
                           bbVars, iterVars>>
    \/ \E w \in Workers : GetItemPatch(w) /\ UNCHANGED <<samplerVars, sampleVars, indexerVars,
                           bbVars, iterVars>>
    \/ \E w \in Workers : GetItemRead(w) /\ UNCHANGED <<samplerVars, sampleVars, indexerVars,
                           bbVars, iterVars>>

ConcurrentStart == SamplerIdle /\ SampleIdle /\ IndexerIdle /\ DatasetInit
    /\ BBIdle /\ IterIdle

ConcurrentSpec == ConcurrentStart /\ [][ConcurrentNext]_vars

\* ------------------------------------------------------- BBImageDataset
\* The arrays of a BBImageDataset are one-dimensional here (plus the channel
\* axis of the images): a bounding box is a list with one slice.

\* self.bb of one case, mode None: slice(min_i, max_i) on every axis, from
\* np.min(idx, axis=-1) and np.max(idx, axis=-1) of idx = np.where(mask > 0).
BoundingBox(mask, D) ==
    [j \in 1..D |-> <<MinBB(mask, D)[j], MaxBB(mask, D)[j]>>]

\* The image of case i and its labels (the mask as an array of 0 and 1).
BBImage(i, n) == [x \in 0..(n - 1) |-> 10 * i + x]
BBLabels(mask, n) == [x \in 0..(n - 1) |-> IF <<x>> \in mask THEN 1 ELSE 0]

\* np.fliplr of the images, np.flipud of the labels: the first axis after
\* the channels is reversed.
Flipped(values) == [k \in DOMAIN values |-> values[Len(values) + 1 - k]]

\* BBImageDataset.__init__(cases, labels, masks, mode=None, flip=...), every
\* mask with a voxel > 0.
BBInit ==
    /\ \E n \in 1..MaxBBAxis, c \in 1..MaxBBCases :
         /\ bb_shape = <<n>>
         /\ bb_masks \in [1..c -> (SUBSET Coords(<<n>>)) \ {{}}]
    /\ bb_flip \in BOOLEAN
    /\ bb_bb = [i \in DOMAIN bb_masks |-> BoundingBox(bb_masks[i], Len(bb_shape))]
    /\ bb_getitem = NoBBGetItem

\* BBImageDataset.__len__
BBLen == IF bb_flip THEN Len(bb_masks) * 2 ELSE Len(bb_masks)

\* BBImageDataset.__getitem__(index) for an index in [0, __len__()), labels
\* given and no sampler.  len(self.bb) == len(self.cases) holds in mode None,
\* so bb = self.bb[index], which raises IndexError past the end of the list;
\* with flip the case is index // 2 and odd indices are mirrored.
BBGetItem ==
    /\ \E index \in 0..(BBLen - 1) :
         IF ~PyIndexable(bb_bb, index)
         THEN bb_getitem' = [NoBBGetItem EXCEPT !.status = "raised", !.index = index]
         ELSE LET bb == PyItem(bb_bb, index)
                  case == IF bb_flip THEN index \div 2 ELSE index
                  n == bb_shape[1]
                  inputs == ArraySlice(BBImage(case + 1, n), bb)
                  targets == ArraySlice(BBLabels(bb_masks[case + 1], n), bb)
                  mirror == bb_flip /\ index % 2 = 1
              IN bb_getitem' =
                   [status |-> "returned", index |-> index, bb |-> bb,
                    inputs |-> IF mirror THEN Flipped(inputs) ELSE inputs,
                    targets |-> IF mirror THEN Flipped(targets) ELSE targets]
    /\ UNCHANGED <<bb_shape, bb_masks, bb_flip, bb_bb>>

BBNext ==
    \/ BBGetItem /\ UNCHANGED <<samplerVars, sampleVars, indexerVars, datasetVars,
                               iterVars>>

BBStart ==
    SamplerIdle /\ SampleIdle /\ IndexerIdle /\ DatasetIdle /\ BBInit /\ IterIdle

BBSpec == BBStart /\ [][BBNext]_vars

\* ================================================================ claims
\* ---- the curriculum sampler (SamplerSpec) and sample() (SampleSpec)

\* C1 (as claimed): once the step has reached sample_div, the sampler's index
\* set holds no index twice and has exactly num_samples elements, whatever
\* weights have been stored.
C1_CurriculumSetIsFull ==
    step >= step_inc => (NoDup(indices) /\ Len(indices) = num_samples)

\* The call sample(s_entry, s_want) asks for more indices than have a
\* non-zero weight.
Insufficient ==
    s_pc # "idle" /\ s_want > Cardinality(Support(s_entry))

\* C2: a call of sample() that asks for more indices than have a non-zero
\* weight ends by raising: it does not run forever and it does not return.
C2_InsufficientWeightsRaise == Insufficient ~> (s_pc = "raised")

\* C2's case: such a call has raised after at least one round of draws.
C2_Witness == Insufficient /\ s_pc = "raised" /\ s_rounds > 0

\* s is a run of consecutive entries of the sequence perm.
IsWindowOf(s, perm) ==
    \E a \in 0..Len(perm) : s = PySlice(perm, a, a + Len(s))

\* C3: the index sets of construction and of the warm-up updates are
\* contiguous windows of `initial`, pairwise disjoint, and once the last
\* warm-up update is done their union is every index in [0, total_samples).
C3_WarmupWindowsPartition ==
    /\ \A k \in DOMAIN windows : IsWindowOf(windows[k], initial)
    /\ \A j, k \in DOMAIN windows :
         j # k => Range(windows[j]) \cap Range(windows[k]) = {}
    /\ step >= step_inc - 1 =>
         UNION {Range(windows[k]) : k \in DOMAIN windows} = Indices(total_samples)

\* C3's case: warm-up has just ended after at least one warm-up update, and
\* the last window is not empty.
C3_Witness ==
    /\ step_inc >= 2 /\ step = step_inc - 1
    /\ Len(windows) = step_inc
    /\ windows[Len(windows)] # <<>>
    /\ indices = windows[Len(windows)]

\* C4: with initial_rate <= 1 and rate_increase >= 0, rate never exceeds 1.0
\* and no call makes it smaller.
C4_RateMonotoneBounded == [](rate <= RateDen) /\ [][rate' >= rate]_vars

\* C4's case: an update raised the rate, and the cap at 1.0 cut the increase.
C4_Witness ==
    /\ upd.kind = "curriculum" /\ ~upd.raised
    /\ upd.rate < rate /\ rate = RateDen
    /\ upd.rate + rate_increase > RateDen

\* The step is an update() that takes the curriculum branch.
CurriculumStep == step' = step + 1 /\ step' >= step_inc

\* C5 (as claimed): a curriculum update draws ceil(num_samples * rate) hard
\* samples and the rest of num_samples as easy samples, with the rate held
\* before the update.
C5_HardCountIsCeil ==
    [][CurriculumStep =>
         /\ upd'.n_hard = CeilDiv(num_samples * rate, RateDen)
         /\ upd'.n_easy = num_samples - upd'.n_hard]_vars

\* C5 (amended): a curriculum update draws int(num_samples * rate) hard
\* samples, the product cut down to a whole number, and the rest of
\* num_samples as easy samples, with the rate held before the update; an
\* update that returns holds that many indices.
C5_HardCountIsFloor ==
    [][CurriculumStep =>
         /\ upd'.n_hard * RateDen <= num_samples * rate
         /\ num_samples * rate < (upd'.n_hard + 1) * RateDen
         /\ upd'.n_easy = num_samples - upd'.n_hard
         /\ (~upd'.raised => Len(indices') = upd'.n_hard + upd'.n_easy)]_vars

\* C5's case: a curriculum update returned where num_samples * rate is not a
\* whole number, so that the floor and the ceiling differ.
C5_Witness ==
    /\ upd.kind = "curriculum" /\ ~upd.raised
    /\ (num_samples * upd.rate) % RateDen # 0
    /\ Len(indices) = num_samples

\* ---- the patch indexer (SlicesBBSpec, BalancedSpec)

\* C6: the lookup of __getitem__ maps the global indices [0, __len__()) one
\* to one onto the pairs (case, local patch index) with 0 <= local < number
\* of patches of the case; the case does not decrease as the index grows, a
\* case with no patches is never selected, __getitem__ returns the patch the
\* pair names, and __len__() is the sum of the patch counts of the cases.
PatchCount(c) == Len(ds_patch_slices[c + 1])
DatasetCases == 0..(Len(ds_patch_slices) - 1)
GlobalIndices == 0..(ds_max_slice[Len(ds_max_slice)] - 1)
Lookup(g) ==
    LET c == CaseIdx(ds_max_slice, g)
    IN <<c, PatchIdx(ds_max_slice, g, c)>>
C6_LookupBijection ==
    /\ \A g \in GlobalIndices :
         /\ Lookup(g)[1] \in DatasetCases
         /\ PatchCount(Lookup(g)[1]) > 0
         /\ Lookup(g)[2] \in 0..(PatchCount(Lookup(g)[1]) - 1)
    /\ \A g, h \in GlobalIndices :
         /\ g # h => Lookup(g) # Lookup(h)
         /\ g < h => Lookup(g)[1] <= Lookup(h)[1]
    /\ \A c \in DatasetCases : \A l \in 0..(PatchCount(c) - 1) :
         \E g \in GlobalIndices : Lookup(g) = <<c, l>>
    /\ ds_getitem.called =>
         /\ <<ds_getitem.case_idx, ds_getitem.patch_idx>> = Lookup(ds_getitem.index)
         /\ ds_getitem.slice_i =
              ds_patch_slices[ds_getitem.case_idx + 1][ds_getitem.patch_idx + 1]
    /\ ds_len.called =>
         ds_len.value = SumTo([i \in DOMAIN ds_patch_slices |-> Len(ds_patch_slices[i])],
                              Len(ds_patch_slices))

\* __getitem__ has returned a patch that is not the first of a case that
\* follows a case with no patches, and __len__ has returned.
C6_Witness ==
    /\ ds_getitem.called /\ ds_len.called
    /\ ds_getitem.patch_idx > 0
    /\ \E c \in DatasetCases : c < ds_getitem.case_idx /\ PatchCount(c) = 0
    /\ \E c \in DatasetCases : c < ds_getitem.case_idx /\ PatchCount(c) > 0

\* C7 (as claimed): every patch slice the indexer returns has, on every axis,
\* 0 <= start, stop <= the length of the axis, and stop - start equal to the
\* patch size of that axis.
C7_SlicesInBoundsFullSize ==
    ix_status = "returned" =>
        \A i \in DOMAIN ix_patch_slices :
            \A k \in DOMAIN ix_patch_slices[i] :
                \A j \in DOMAIN ix_shape :
                    LET sl == ix_patch_slices[i][k][j]
                    IN /\ 0 <= sl[1]
                       /\ sl[2] <= ix_shape[j]
                       /\ sl[2] - sl[1] = ix_call.patch_size[j]

\* get_slices_bb was called on the mask of shape (10, 10, 10) whose only
\* voxel > 0 is (5, 5, 5), in a list, with patch size 4 and overlap 0, and
\* has returned.
ExampleCall ==
    /\ ix_shape = <<10, 10, 10>>
    /\ ix_masks = << {<<5, 5, 5>>} >>
    /\ ix_status = "returned"
    /\ ix_call.fn = "get_slices_bb"
    /\ ~ix_call.single
    /\ ix_call.patch_size = <<4, 4, 4>>
    /\ ix_call.overlap = 0
    /\ ~ix_call.filtered

\* C8 (as claimed): in the example get_slices_bb returns exactly one patch,
\* and its centre is (5, 5, 5): the patch is [3, 7) on every axis.
C8_ExampleCentre ==
    ExampleCall =>
        /\ Len(ix_patch_slices[1]) = 1
        /\ \A j \in 1..3 :
             ix_patch_slices[1][1][j][1] + PatchHalf(ix_call.patch_size)[j] = 5

\* The centre of a patch slice, and the patches of case i of the result that
\* are centred on a voxel > 0 of its mask, or on a voxel that is not.
BalancedCall == ix_call.fn = "get_balanced_slices" /\ ix_status = "returned"
CentreOf(slice_i) ==
    [j \in DOMAIN slice_i |-> slice_i[j][1] + PatchHalf(ix_call.patch_size)[j]]
FgPatches(i) ==
    {k \in DOMAIN ix_patch_slices[i] : CentreOf(ix_patch_slices[i][k]) \in ix_masks[i]}
BckPatches(i) ==
    {k \in DOMAIN ix_patch_slices[i] : CentreOf(ix_patch_slices[i][k]) \notin ix_masks[i]}
DistinctBckCentres(i) ==
    \A k, l \in BckPatches(i) :
        k # l => CentreOf(ix_patch_slices[i][k]) # CentreOf(ix_patch_slices[i][l])

\* round(neg_ratio * n), for the ratio neg_ratio[1] / neg_ratio[2].
NegCountRounded(neg_ratio, n) ==
    (2 * neg_ratio[1] * n + neg_ratio[2]) \div (2 * neg_ratio[2])

\* C9, as stated: for every case the number of foreground-centred patches is
\* the number of voxels > 0 of its mask, the number of background-centred
\* patches is round(neg_ratio * that number), and the background centres are
\* pairwise distinct.
C9_CountsOfWholeMask ==
    BalancedCall =>
        \A i \in DOMAIN ix_masks :
            /\ Cardinality(FgPatches(i)) = Cardinality(ix_masks[i])
            /\ Cardinality(BckPatches(i)) =
                 NegCountRounded(ix_call.neg_ratio, Cardinality(ix_masks[i]))
            /\ DistinctBckCentres(i)

\* The legal region of case i: on every axis, from max(bounding-box minimum,
\* half patch) to min(bounding-box maximum, axis length - half patch), the
\* bounding box being that of the roi, or of the mask when there are no rois.
InLegalRegion(i, v) ==
    LET box == IF ix_rois = <<>> THEN ix_masks[i] ELSE ix_rois[i]
        half == PatchHalf(ix_call.patch_size)
    IN \A j \in DOMAIN ix_shape :
          /\ v[j] >= half[j] /\ v[j] <= ix_shape[j] - half[j]
          /\ \E u \in box : u[j] <= v[j]
          /\ \E u \in box : u[j] >= v[j]
LegalFg(i) == {v \in ix_masks[i] : InLegalRegion(i, v)}
\* The candidate background centres of case i: the legal voxels that are not
\* > 0 in the mask and lie in the roi, when there is one; with min_size > 0,
\* only those whose patch holds more than min_size voxels > 0 of the mask.
BckCandidates(i) ==
    {v \in Coords(ix_shape) \ ix_masks[i] :
        /\ InLegalRegion(i, v)
        /\ ix_rois # <<>> => v \in ix_rois[i]
        /\ ix_call.min_size > 0 =>
             LET half == PatchHalf(ix_call.patch_size)
             IN Cardinality({u \in ix_masks[i] :
                                \A j \in DOMAIN ix_shape :
                                    /\ u[j] >= v[j] - half[j]
                                    /\ u[j] < v[j] + half[j]
                                    /\ v[j] - half[j] >= 0}) > ix_call.min_size}

\* C9, amended: when get_balanced_slices returns, for every case the number
\* of foreground-centred patches is the number of voxels > 0 of its mask that
\* lie in the legal region, the number of background-centred patches is
\* int(neg_ratio * that number), or the number of candidate background
\* centres when there are fewer, and the background centres are pairwise
\* distinct.
C9_CountsOfLegalMask ==
    BalancedCall =>
        \A i \in DOMAIN ix_masks :
            /\ Cardinality(FgPatches(i)) = Cardinality(LegalFg(i))
            /\ Cardinality(BckPatches(i)) =
                 Min((ix_call.neg_ratio[1] * Cardinality(LegalFg(i)))
                        \div ix_call.neg_ratio[2],
                     Cardinality(BckCandidates(i)))
            /\ DistinctBckCentres(i)

\* get_balanced_slices has returned foreground-centred and background-centred
\* patches for a case whose mask has a voxel > 0 outside the legal region.
C9_Witness ==
    /\ BalancedCall
    /\ \E i \in DOMAIN ix_masks :
         /\ Cardinality(FgPatches(i)) >= 2
         /\ Cardinality(FgPatches(i)) < Cardinality(ix_masks[i])
         /\ Cardinality(BckPatches(i)) >= 1

\* The masks get_slices_bb was called on.
CalledMasks == IF ix_call.single THEN <<ix_masks[1]>> ELSE ix_masks

\* The slices of the grid of case i that hold exactly n voxels > 0.
GridWithCount(i, n) ==
    LET grid == GridSlices(CalledMasks[i], ix_call.patch_size,
                           ix_call.overlap, ix_call.single)
    IN {k \in DOMAIN grid : ForegroundIn(CalledMasks[i], ix_shape, grid[k]) = n}

\* C10 (as claimed): with filtering on, get_slices_bb removes a patch exactly
\* when it holds fewer than min_size voxels > 0: the patches with min_size or
\* more are kept, in their order.
C10_RemovedIffBelow ==
    (ix_status = "returned" /\ ix_call.fn = "get_slices_bb" /\ ix_call.filtered) =>
        \A i \in DOMAIN ix_patch_slices :
            ix_patch_slices[i] =
                SelectSeq(GridSlices(CalledMasks[i], ix_call.patch_size,
                                     ix_call.overlap, ix_call.single),
                          LAMBDA g : ForegroundIn(CalledMasks[i], ix_shape, g)
                                        >= ix_call.min_size)

\* C10 (amended): with filtering on, get_slices_bb removes a patch exactly
\* when it holds min_size voxels > 0 or fewer: the patches with more than
\* min_size are kept, in their order.
C10_RemovedIffNotAbove ==
    (ix_status = "returned" /\ ix_call.fn = "get_slices_bb" /\ ix_call.filtered) =>
        \A i \in DOMAIN ix_patch_slices :
            ix_patch_slices[i] =
                SelectSeq(GridSlices(CalledMasks[i], ix_call.patch_size,
                                     ix_call.overlap, ix_call.single),
                          LAMBDA g : ForegroundIn(CalledMasks[i], ix_shape, g)
                                        > ix_call.min_size)

\* C10's case: a filtered call with min_size >= 1 has removed a patch that
\* holds exactly min_size voxels > 0 and kept another patch.
C10_Witness ==
    /\ ix_status = "returned" /\ ix_call.fn = "get_slices_bb"
    /\ ix_call.filtered /\ ix_call.min_size >= 1
    /\ \E i \in DOMAIN ix_patch_slices :
         /\ GridWithCount(i, ix_call.min_size) # {}
         /\ ix_patch_slices[i] # <<>>

\* The masks a call of the indexer was given, and the arrays whose bounding
\* box it takes: the masks for get_slices_bb; for get_balanced_slices the
\* rois, or the masks when rois is None.
IndexerCalled == ix_status # "ready"
GivenMasks ==
    IF ix_call.fn = "get_slices_bb" /\ ix_call.single THEN <<ix_masks[1]>> ELSE ix_masks
BoxArrays ==
    IF ix_call.fn = "get_balanced_slices" /\ ix_rois # <<>> THEN ix_rois ELSE GivenMasks

C12_UpdateWeightsFrame ==
    [][\A idx \in Batches : \A new \in [idx -> WeightValues] :
          update_weights(new, idx) =>
              /\ \A i \in idx : weights'[i] = new[i]
              /\ \A i \in Indices(total_samples) \ idx : weights'[i] = weights[i]
              /\ DOMAIN weights' = DOMAIN weights
              /\ UNCHANGED <<step, rate, initial, indices>>]_vars

\* update_weights has stored a loss for one index after the curriculum
\* started, while another index still holds its first weight.
C12_Witness ==
    /\ step >= step_inc
    /\ \E i, k \in Indices(total_samples) :
         weights[i] \in LossValues /\ weights[k] = InitWeight

\* The result of one isolated call __getitem__(g): the image and the labels
\* of the case of g, cut to the patch of g.
IsolatedGetItem(g) ==
    LET c == Lookup(g)[1]
        slice_i == ds_patch_slices[c + 1][Lookup(g)[2] + 1]
        lo == slice_i[1][1]
        hi == slice_i[1][2]
    IN [inputs |-> [k \in 1..(hi - lo) |-> ds_cases[c + 1][lo + k - 1]],
        target |-> [k \in 1..(hi - lo) |-> ds_labels[c + 1][lo + k - 1]]]

\* C13: __getitem__ leaves the cases, the labels, the patch slices and the
\* cumulative counts unchanged, and whatever the interleaving of the calls of
\* the workers, no call raises and each call that has returned has returned
\* what one isolated call returns for its index.
C13_PureLookup ==
    /\ [][UNCHANGED <<ds_cases, ds_labels, ds_patch_slices, ds_max_slice>>]_vars
    /\ [](\A w \in Workers :
            /\ ds_calls[w].pc # "raised"
            /\ ds_calls[w].pc = "done" =>
                 ds_calls[w].result = IsolatedGetItem(ds_calls[w].index))

\* One worker has returned the patch of one case while the other worker is
\* half way through a call for a patch of another case.
C13_Witness ==
    /\ ds_calls["w1"].pc = "done" /\ ds_calls["w1"].result.inputs # <<>>
    /\ ds_calls["w2"].pc = "read"
    /\ ds_frames["w1"].case_idx # ds_frames["w2"].case_idx

\* The call sample(s_entry, s_want) asks for no more indices than have a
\* positive weight.
Sufficient ==
    s_pc # "idle" /\ s_want <= Cardinality(Support(s_entry))

\* C14: a call of sample() that asks for no more indices than have a
\* positive weight does not raise, adds at least one new index in every
\* round, so that it makes at most `want` rounds, and returns: exactly `want`
\* pairwise distinct indices, each of positive weight on entry.
C14_SufficientWeightsReturn ==
    /\ [](Sufficient =>
            /\ s_pc # "raised"
            /\ s_rounds <= s_have /\ s_rounds <= s_want
            /\ NoDup(s_samples) /\ Len(s_samples) = s_have
            /\ s_pc = "returned" =>
                 /\ Len(s_samples) = s_want
                 /\ \A k \in DOMAIN s_samples : s_entry[s_samples[k]] > 0)
    /\ Sufficient ~> (s_pc = "returned")

\* Such a call has returned two or more indices after more than one round, and
\* has left an index of positive weight undrawn.
C14_Witness ==
    /\ Sufficient /\ s_pc = "returned"
    /\ s_want >= 2 /\ s_rounds >= 2
    /\ Support(s_entry) \ Range(s_samples) # {}

\* C15, as stated: the rate changes only in an update() whose resulting step
\* is a multiple of sample_div greater than sample_div, and there it becomes
\* min(rate + rate_increase, 1); in every other step it keeps its value.
\* (The closed form for the rate after n updates follows from this by
\* induction on n.)
C15_RateSchedule ==
    [][IF step' = step + 1 /\ step' > step_inc /\ step' % step_inc = 0
       THEN rate' = Min(rate + rate_increase, RateDen)
       ELSE rate' = rate]_vars

\* The centres of the patch slices returned for case i, on axis j, and the
\* first and last centre the bounding box of the mask allows on that axis.
AxisCentres(i, j) ==
    {ix_patch_slices[i][k][j][1] + PatchHalf(ix_call.patch_size)[j]
        : k \in DOMAIN ix_patch_slices[i]}
NearEdge(i, j) ==
    MinBB(CalledMasks[i], Len(ix_shape))[j] + PatchHalf(ix_call.patch_size)[j]
FarEdge(i, j) ==
    MaxBB(CalledMasks[i], Len(ix_shape))[j] - PatchHalf(ix_call.patch_size)[j]
RECURSIVE ProductOfCounts(_, _)
ProductOfCounts(i, j) ==
    IF j = 0 THEN 1 ELSE Cardinality(AxisCentres(i, j)) * ProductOfCounts(i, j - 1)

\* C16, as stated: an unfiltered call of get_slices_bb, with a list or with a
\* single mask, returns for every case the grid whose centres on each axis
\* are min+half, min+half+step, ... up to max-half, all within
\* [min+half, max-half], and max-half itself, each combination once.
C16_GridWithFarEdge ==
    (ix_status = "returned" /\ ix_call.fn = "get_slices_bb" /\ ~ix_call.filtered) =>
        \A i \in DOMAIN ix_patch_slices :
            /\ \A j \in DOMAIN ix_shape :
                 LET lo == NearEdge(i, j)
                     hi == FarEdge(i, j)
                     st == Max(ix_call.patch_size[j] - ix_call.overlap, 1)
                 IN /\ AxisCentres(i, j) =
                         {c \in lo..hi : (c - lo) % st = 0} \cup {hi}
                    /\ AxisCentres(i, j) \subseteq lo..hi
            /\ Len(ix_patch_slices[i]) = ProductOfCounts(i, Len(ix_shape))

\* C17, as stated: with mode None and no flip, the crop __getitem__(i)
\* returns uses the bounding box of the mask of case i, and that box holds
\* every voxel > 0 of the mask, those at the largest coordinate included.
C17_BoxHoldsForeground ==
    (bb_getitem.status = "returned" /\ ~bb_flip) =>
        LET mask == bb_masks[bb_getitem.index + 1]
        IN /\ bb_getitem.bb = bb_bb[bb_getitem.index + 1]
           /\ \A v \in mask : \A j \in DOMAIN bb_shape :
                 v[j] \in NumpyRange(bb_getitem.bb[j], bb_shape[j])
           /\ Cardinality({k \in DOMAIN bb_getitem.targets : bb_getitem.targets[k] = 1})
                = Cardinality(mask)

\* C18: update() never modifies the stored weights: what sample() zeroes
\* during the easy and the hard selection are temporary tensors, so the
\* stored weights after update() are those before it.
C18_UpdateKeepsWeights ==
    [][step' = step + 1 => weights' = weights]_vars

\* An update in the curriculum state has returned with hard and easy
\* samples, and every index it selected still has its stored weight: the
\* hard ones a positive weight, the easy ones a weight below the maximum.
C18_Witness ==
    /\ upd.kind = "curriculum" /\ ~upd.raised
    /\ upd.n_hard >= 1 /\ upd.n_easy >= 1
    /\ \E i, k \in Range(indices) :
         weights[i] > 0 /\ weights[k] < SetMax(Range(weights))

\* C19, as stated: at every step, one full iteration over the sampler yields
\* __len__() = num_samples indices.
C19_IterationYieldsLen ==
    it_pc = "exhausted" => Len(it_yielded) = SamplerLen

\* C20: an iteration yields the index set that was current when __iter__
\* was called, in its order, whatever update() and update_weights() do
\* before it is exhausted: the list it walks is the index set of the moment
\* of the call, it does not change afterwards, the indices yielded so far
\* are its first elements, and at exhaustion all of it has been yielded.
C20_IterationIsSnapshot ==
    /\ [][/\ (it_pc' = "running" /\ it_pc # "running") => it_list' = indices
          /\ it_pc = "running" => it_list' = it_list]_vars
    /\ [](it_pc # "none" =>
            /\ Len(it_yielded) <= Len(it_list)
            /\ it_yielded = SubSeq(it_list, 1, Len(it_yielded))
            /\ it_pc = "exhausted" => it_yielded = it_list)

\* An iteration has yielded all of its two or more indices although update()
\* has given the sampler another index set since it started.
C20_Witness ==
    /\ it_pc = "exhausted"
    /\ Len(it_yielded) >= 2
    /\ it_yielded # indices
    /\ it_yielded = it_list

=============================================================================
